---- MODULE Spec2Model ----
(***************************************************************************)
(* Source-map store of pkg/api/frontendlogging/source_maps.go:             *)
(* guessSourceMapLocation, SourceMapStore.getSourceMap (a mutex-guarded,   *)
(* memoising loader) and SourceMapStore.resolveSourceLocation.             *)
(*                                                                         *)
(* Strings are sequences of tokens.  A token is an indivisible piece of    *)
(* text ("/", "public", "foo", "..", ".map", ...); the tokenisation of a   *)
(* string is unique, so prefix tests, slicing and concatenation on token   *)
(* sequences coincide with the same operations on the strings.             *)
(***************************************************************************)
EXTENDS Integers, Sequences, FiniteSets, TLC

\* ------------------------------------------------------------------ bounds
\* Total number of resolveSourceLocation calls started in one behaviour.
MaxCalls == 2

\* Concurrent callers of the store.
Procs == {"p1", "p2"}

NoProc == "none"

\* ----------------------------------------------------------- string helpers
SL == "/"

HasPrefix(s, prefix) ==
    /\ Len(prefix) <= Len(s)
    /\ SubSeq(s, 1, Len(prefix)) = prefix

\* s[n:] of Go (n counted in tokens)
SliceFrom(s, n) == SubSeq(s, n + 1, Len(s))

RECURSIVE Split(_)
\* strings.Split(s, "/") : the elements between separators
Split(s) ==
    IF \A i \in 1..Len(s) : s[i] # SL
    THEN <<s>>
    ELSE LET k == CHOOSE i \in 1..Len(s) :
                     /\ s[i] = SL
                     /\ \A j \in 1..(i - 1) : s[j] # SL
         IN  <<SubSeq(s, 1, k - 1)>> \o Split(SubSeq(s, k + 1, Len(s)))

RECURSIVE JoinElems(_)
\* strings.Join(elems, "/")
JoinElems(elems) ==
    IF elems = <<>> THEN <<>>
    ELSE IF Len(elems) = 1 THEN elems[1]
    ELSE elems[1] \o <<SL>> \o JoinElems(Tail(elems))

RECURSIVE CleanElems(_, _, _, _)
\* The element loop of filepath.Clean: out is the output so far, dotdot the
\* number of leading ".." elements of out that cannot be backtracked over.
CleanElems(elems, out, dotdot, rooted) ==
    IF elems = <<>> THEN out
    ELSE LET e    == Head(elems)
             rest == Tail(elems)
         IN  IF e = <<>> \/ e = <<".">>
             THEN CleanElems(rest, out, dotdot, rooted)
             ELSE IF e = <<"..">>
             THEN IF Len(out) > dotdot
                  THEN CleanElems(rest, SubSeq(out, 1, Len(out) - 1), dotdot, rooted)
                  ELSE IF ~rooted
                  THEN CleanElems(rest, Append(out, e), Len(out) + 1, rooted)
                  ELSE CleanElems(rest, out, dotdot, rooted)
             ELSE CleanElems(rest, Append(out, e), dotdot, rooted)

\* filepath.Clean (separator "/")
Clean(path) ==
    IF path = <<>> THEN <<".">>
    ELSE LET rooted == path[1] = SL
             out    == CleanElems(Split(path), <<>>, 0, rooted)
         IN  IF rooted THEN <<SL>> \o JoinElems(out)
             ELSE IF out = <<>> THEN <<".">>
             ELSE JoinElems(out)

\* filepath.Join(a, b): empty elements are ignored, the rest is joined with
\* the separator and cleaned.
Join(a, b) ==
    IF a = <<>> /\ b = <<>> THEN <<>>
    ELSE IF a = <<>> THEN Clean(b)
    ELSE IF b = <<>> THEN Clean(a)
    ELSE Clean(a \o <<SL>> \o b)

\* --------------------------------------------------------------- URL parsing
BuildPrefix   == <<"/", "public", "/", "build", "/">>
PluginsPrefix == <<"/", "public", "/", "plugins", "/">>
MapSuffix     == <<".map">>

\* Tokens that open the authority part, the query and the fragment of a URL.
Origin == "http://h"
Delims == {"?", "#"}

\* A percent sign not followed by two hexadecimal digits.
BadEscape == "%zz"

\* url.Parse fails on an invalid percent-escape.
urlParseFails(sourceURL) == \E i \in 1..Len(sourceURL) : sourceURL[i] = BadEscape

\* Percent-decoding of one token ("%2e%2e" is "..").
unescape(t) == IF t = "%2e%2e" THEN ".." ELSE t

\* u.Path of url.Parse(sourceURL): the authority, the query and the fragment
\* are cut off and the rest is percent-decoded.
urlPath(sourceURL) ==
    LET noOrigin == IF sourceURL # <<>> /\ sourceURL[1] = Origin
                    THEN Tail(sourceURL) ELSE sourceURL
        cut      == IF \E i \in 1..Len(noOrigin) : noOrigin[i] \in Delims
                    THEN (CHOOSE i \in 1..Len(noOrigin) :
                              /\ noOrigin[i] \in Delims
                              /\ \A j \in 1..(i - 1) : noOrigin[j] \notin Delims) - 1
                    ELSE Len(noOrigin)
    IN  [i \in 1..cut |-> unescape(noOrigin[i])]

\* ------------------------------------------------------- the model's inputs
\* Reported source URLs.
CoreURL      == <<Origin, "/", "public", "/", "build", "/", "app.js">>
CoreQueryURL == <<Origin, "/", "public", "/", "build", "/", "app.js", "?", "v=1">>
CoreUpURL    == <<"/", "public", "/", "build", "/", "..", "/", "%2e%2e", "/", "etc.js">>
PluginURL    == <<"/", "public", "/", "plugins", "/", "foo", "/", "module.js">>
PluginBarURL == <<"/", "public", "/", "plugins", "/", "foo", "bar", "/", "module.js">>
OtherURL     == <<"/", "assets", "/", "app.js">>
BadURL       == <<"/", "public", "/", "build", "/", BadEscape>>

URLs == {CoreURL, CoreQueryURL, CoreUpURL, PluginURL, PluginBarURL, OtherURL, BadURL}

\* sentry.Frame as reported: Filename, Lineno, Colno
Frame(u, line, col) == [Filename |-> u, Lineno |-> line, Colno |-> col]

Frames == {Frame(CoreURL, 1, 0), Frame(CoreURL, 1, 4), Frame(CoreURL, 1, 5),
           Frame(CoreQueryURL, 1, 5), Frame(CoreUpURL, 1, 5), Frame(PluginURL, 1, 5),
           Frame(PluginBarURL, 1, 5), Frame(OtherURL, 1, 5), Frame(BadURL, 1, 5)}

\* cfg.StaticRootPath
StaticRootPath == "static"

\* plugins.Route values and the contents the registry may hold.
RouteFoo    == [PluginId |-> <<"foo">>, Directory |-> "dirFoo"]
RouteFooBar == [PluginId |-> <<"foo", "bar">>, Directory |-> "dirFooBar"]

Registries == {<<>>, <<RouteFoo, RouteFooBar>>, <<RouteFooBar, RouteFoo>>}

\* File contents the reader may deliver: two well-formed maps and one that
\* does not parse.
Contents == {"mapA", "mapB", "corrupt"}

\* The mappings a well-formed file encodes: (generated line, generated
\* column) -> (source, name, line, column), sorted by generated position.
MapA == <<[genLine |-> 1, genColumn |-> 3, source |-> "a.ts", name |-> "fa",
           sourceLine |-> 10, sourceColumn |-> 2],
          [genLine |-> 1, genColumn |-> 5, source |-> "b.ts", name |-> "",
           sourceLine |-> 20, sourceColumn |-> 4]>>
MapB == <<[genLine |-> 1, genColumn |-> 0, source |-> "c.ts", name |-> "fc",
           sourceLine |-> 7, sourceColumn |-> 1]>>

\* Errors
NoErr    == "nil"
UrlErr   == "invalid URL escape"
NotExist == "file does not exist"
IOErr    == "permission denied"
ParseErr == "sourcemap: invalid"

\* What one call of the injected reader can deliver.
ReadOutcomes == [b : Contents, err : {NoErr}] \cup [b : {""}, err : {NotExist, IOErr}]

\* os.IsNotExist
IsNotExist(err) == err = NotExist

\* sourcemap.Parse: a consumer over the mappings, or an error.
sourcemapParse(b) ==
    IF b = "mapA" THEN [consumer |-> MapA, err |-> NoErr]
    ELSE IF b = "mapB" THEN [consumer |-> MapB, err |-> NoErr]
    ELSE [consumer |-> <<>>, err |-> ParseErr]

\* sort.Search over the mappings, as in Consumer.Source: the least index
\* whose mapping is at or after (genLine, genColumn), Len + 1 if none.
searchMappings(m, genLine, genColumn) ==
    LET AtOrAfter(i) == IF m[i].genLine = genLine
                        THEN m[i].genColumn >= genColumn
                        ELSE m[i].genLine >= genLine
    IN  IF \E i \in 1..Len(m) : AtOrAfter(i)
        THEN CHOOSE i \in 1..Len(m) : AtOrAfter(i) /\ \A j \in 1..(i - 1) : ~AtOrAfter(j)
        ELSE Len(m) + 1

NoMapping == [ok |-> FALSE, file |-> "", function |-> "", line |-> 0, col |-> 0]

\* consumer.Source(genLine, genColumn)
consumerSource(m, genLine, genColumn) ==
    LET i == searchMappings(m, genLine, genColumn)
        Hit(k) == [ok |-> TRUE, file |-> m[k].source, function |-> m[k].name,
                   line |-> m[k].sourceLine, col |-> m[k].sourceColumn]
    IN  IF i = Len(m) + 1 THEN NoMapping
        ELSE IF m[i].genLine > genLine \/ m[i].genColumn > genColumn
             THEN IF i = 1 THEN NoMapping ELSE Hit(i - 1)
             ELSE Hit(i)

\* ------------------------------------------------------ location resolution
NoLocation == [kind |-> "nil", dir |-> "", path |-> <<>>, pluginID |-> <<>>, err |-> NoErr]

\* Faulty variant of the loop: the last matching route wins.
matchRouteLast(path, routes) ==
    LET prefixOf(i) == Join(PluginsPrefix, routes[i].PluginId)
        matching    == {i \in 1..Len(routes) : HasPrefix(path, prefixOf(i))}
    IN  IF matching = {} THEN NoLocation
        ELSE LET i == CHOOSE k \in matching : \A j \in matching : j <= k
             IN  [kind |-> "loc", dir |-> routes[i].Directory,
                  path |-> SliceFrom(path, Len(prefixOf(i))) \o MapSuffix,
                  pluginID |-> routes[i].PluginId, err |-> NoErr]

RECURSIVE matchRoute(_, _)
\* The loop over plugins.StaticRoutes: the first route whose prefix matches.
matchRoute(path, routes) ==
    IF routes = <<>> THEN NoLocation
    ELSE LET route        == Head(routes)
             pluginPrefix == Join(PluginsPrefix, route.PluginId)
         IN  IF HasPrefix(path, pluginPrefix)
             THEN [kind |-> "loc", dir |-> route.Directory,
                   path |-> SliceFrom(path, Len(pluginPrefix)) \o MapSuffix,
                   pluginID |-> route.PluginId, err |-> NoErr]
             ELSE matchRoute(path, Tail(routes))

guessSourceMapLocation(sourceURL, routes) ==
    IF urlParseFails(sourceURL)
    THEN [kind |-> "err", dir |-> "", path |-> <<>>, pluginID |-> <<>>, err |-> UrlErr]
    ELSE LET path == urlPath(sourceURL)
         IN  IF HasPrefix(path, BuildPrefix)
             THEN [kind |-> "loc", dir |-> StaticRootPath,
                   path |-> Join(<<"build">>, SliceFrom(path, Len(BuildPrefix))) \o MapSuffix,
                   pluginID |-> <<>>, err |-> NoErr]
             ELSE IF HasPrefix(path, PluginsPrefix)
             THEN matchRoute(path, routes)
             ELSE NoLocation

\* getSourceMap, lines 102-106: the path handed to the reader.
normalizePath(p) ==
    Clean(IF HasPrefix(p, <<SL>>) THEN <<SL>> \o p ELSE p)

\* -------------------------------------------------------------- the store
VARIABLES
    StaticRoutes,  \* plugins.StaticRoutes, the plugin route registry
    cache,         \* store.cache : sourceURL -> absent | nil | *sourceMap
    mu,            \* store.Mutex : the caller holding it, or NoProc
    pc,            \* position of each caller
    frame,         \* the sentry.Frame each caller resolves
    loc,           \* sourceMapLocation of the caller's getSourceMap
    b,             \* bytes the reader returned to the caller
    ret,           \* what getSourceMap returned to the caller
    reads,         \* per URL: the reader invocations (dir, path, err)
    parses,        \* per URL: the outcomes of the parser runs
    outcomes,      \* per URL: the ways its lookups past the cache test ended
    resolved,      \* per frame: result of the last completed resolution
    prev,          \* resolved[frame] when the caller acquired the mutex
    cacheAtLock,   \* the cache when the mutex last changed hands
    readsAtLock,   \* reads when the mutex last changed hands
    parsesAtLock,  \* parses when the mutex last changed hands
    calls          \* number of calls started

vars == <<StaticRoutes, cache, mu, pc, frame, loc, b, ret, reads, parses, outcomes,
          resolved, prev, cacheAtLock, readsAtLock,
                   parsesAtLock, calls>>

\* Values of store.cache[sourceURL]: no key, a nil *sourceMap, a *sourceMap.
Absent == [state |-> "absent", consumer |-> <<>>, pluginID |-> <<>>]
Nil    == [state |-> "nil", consumer |-> <<>>, pluginID |-> <<>>]
SMap(consumer, pluginID) == [state |-> "map", consumer |-> consumer, pluginID |-> pluginID]

NoFrame  == [Filename |-> <<>>, Lineno |-> 0, Colno |-> 0]
NoRet    == [smap |-> Nil, err |-> NoErr, via |-> "none"]

\* Results of resolveSourceLocation: (nil, err), (nil, nil) or (&frame, nil);
\* NotYet stands for "this frame was never resolved".
NoSentryFrame == [Filename |-> "", Lineno |-> 0, Colno |-> 0, Function |-> "", Module |-> <<>>]
NotYet        == [state |-> "notyet", frame |-> NoSentryFrame, err |-> NoErr]
Failed(err)   == [state |-> "nil", frame |-> NoSentryFrame, err |-> err]
NoneResult    == [state |-> "nil", frame |-> NoSentryFrame, err |-> NoErr]
Resolved(f)   == [state |-> "frame", frame |-> f, err |-> NoErr]

\* NewSourceMapStore: an empty cache, an unlocked mutex, idle callers.
Init ==
    /\ StaticRoutes \in Registries
    /\ cache = [u \in URLs |-> Absent]
    /\ mu = NoProc
    /\ pc = [p \in Procs |-> "idle"]
    /\ frame = [p \in Procs |-> NoFrame]
    /\ loc = [p \in Procs |-> NoLocation]
    /\ b = [p \in Procs |-> ""]
    /\ ret = [p \in Procs |-> NoRet]
    /\ reads = [u \in URLs |-> <<>>]
    /\ parses = [u \in URLs |-> <<>>]
    /\ outcomes = [u \in URLs |-> {}]
    /\ resolved = [f \in Frames |-> NotYet]
    /\ prev = [p \in Procs |-> NotYet]
    /\ cacheAtLock = cache
    /\ readsAtLock = reads
    /\ parsesAtLock = parses
    /\ calls = 0

\* A caller enters resolveSourceLocation(f).
Call(p, f) ==
    /\ pc[p] = "idle"
    /\ calls < MaxCalls
    /\ calls' = calls + 1
    /\ frame' = [frame EXCEPT ![p] = f]
    /\ pc' = [pc EXCEPT ![p] = "lock"]
    /\ UNCHANGED <<StaticRoutes, cache, mu, loc, b, ret, reads, parses, outcomes,
                   resolved, prev, cacheAtLock, readsAtLock, parsesAtLock>>

\* store.Lock()
Lock(p) ==
    /\ pc[p] = "lock"
    /\ mu = NoProc
    /\ mu' = p
    /\ cacheAtLock' = cache
    /\ readsAtLock' = reads
    /\ parsesAtLock' = parses
    /\ prev' = [prev EXCEPT ![p] = resolved[frame[p]]]
    /\ pc' = [pc EXCEPT ![p] = "lookup"]
    /\ UNCHANGED <<StaticRoutes, cache, frame, loc, b, ret, reads, parses,
                   outcomes, resolved, calls>>

\* Faulty variants of the cache test: one that never finds a key, one that
\* takes a nil entry for a missing key.
cacheHitNever(c, sourceURL) == FALSE

cacheHitNonNil(c, sourceURL) == c[sourceURL].state = "map"

\* Faulty variant: the key is the path of the URL, so that a URL finds the
\* entry of any URL with the same path.
cacheHitByPath(c, sourceURL) ==
    \E v \in URLs :
        /\ c[v] # Absent
        /\ v = sourceURL \/ (~urlParseFails(v) /\ ~urlParseFails(sourceURL)
                                 /\ urlPath(v) = urlPath(sourceURL))

\* The cache test of getSourceMap: is there a key for sourceURL?
cacheHit(c, sourceURL) == c[sourceURL] # Absent

\* Faulty variants: an unknown location that is not remembered, and an
\* entry written before the error of the resolver is looked at.
cacheAfterGuessNever(c, sourceURL, l) == c

cacheAfterGuessAlways(c, sourceURL, l) ==
    IF l.kind # "loc" THEN [c EXCEPT ![sourceURL] = Nil] ELSE c

\* The cache after location resolution: an unknown location is remembered
\* as a nil entry, an error or a location leaves the cache alone.
cacheAfterGuess(c, sourceURL, l) ==
    IF l.kind = "nil" THEN [c EXCEPT ![sourceURL] = Nil] ELSE c

\* getSourceMap up to the reader: cache lookup, then location resolution.
Lookup(p) ==
    LET sourceURL == frame[p].Filename
        l         == guessSourceMapLocation(sourceURL, StaticRoutes)
    IN  /\ pc[p] = "lookup"
        /\ IF cacheHit(cache, sourceURL)
           THEN /\ ret' = [ret EXCEPT ![p] = [smap |-> cache[sourceURL], err |-> NoErr, via |-> "hit"]]
                /\ pc' = [pc EXCEPT ![p] = "unlock"]
                /\ UNCHANGED <<cache, loc, outcomes>>
           ELSE IF l.kind = "err"
           THEN /\ cache' = cacheAfterGuess(cache, sourceURL, l)
                /\ ret' = [ret EXCEPT ![p] = [smap |-> Nil, err |-> l.err, via |-> "urlerr"]]
                /\ outcomes' = [outcomes EXCEPT ![sourceURL] = @ \cup {"urlerr"}]
                /\ pc' = [pc EXCEPT ![p] = "unlock"]
                /\ UNCHANGED loc
           ELSE IF l.kind = "nil"
           THEN /\ cache' = cacheAfterGuess(cache, sourceURL, l)
                /\ ret' = [ret EXCEPT ![p] = [smap |-> Nil, err |-> NoErr, via |-> "unknown"]]
                /\ outcomes' = [outcomes EXCEPT ![sourceURL] = @ \cup {"unknown"}]
                /\ pc' = [pc EXCEPT ![p] = "unlock"]
                /\ UNCHANGED loc
           ELSE /\ loc' = [loc EXCEPT ![p] = l]
                /\ pc' = [pc EXCEPT ![p] = "read"]
                /\ UNCHANGED <<cache, ret, outcomes>>
        /\ UNCHANGED <<StaticRoutes, mu, frame, b, reads, parses, resolved,
                       prev, cacheAtLock, readsAtLock,
                   parsesAtLock, calls>>

\* Faulty variants: a missing file that is not remembered, and every
\* reader error remembered as a nil entry.
cacheAfterReadErrorNever(c, sourceURL, err) == c

cacheAfterReadErrorAll(c, sourceURL, err) == [c EXCEPT ![sourceURL] = Nil]

\* The cache after the reader failed with err: only "file does not exist"
\* is remembered, as a nil entry.
cacheAfterReadError(c, sourceURL, err) ==
    IF IsNotExist(err) THEN [c EXCEPT ![sourceURL] = Nil] ELSE c

\* store.readSourceMap(dir, path) and the handling of its error.
Read(p) ==
    LET sourceURL == frame[p].Filename
        path      == normalizePath(loc[p].path)
    IN  /\ pc[p] = "read"
        /\ \E r \in ReadOutcomes :
              /\ reads' = [reads EXCEPT ![sourceURL] =
                              Append(@, [dir |-> loc[p].dir, path |-> path,
                                          b |-> r.b, err |-> r.err])]
              /\ IF r.err # NoErr
                 THEN IF IsNotExist(r.err)
                      THEN /\ cache' = cacheAfterReadError(cache, sourceURL, r.err)
                           /\ ret' = [ret EXCEPT ![p] = [smap |-> Nil, err |-> NoErr, via |-> "notfound"]]
                           /\ outcomes' = [outcomes EXCEPT ![sourceURL] = @ \cup {"notfound"}]
                           /\ pc' = [pc EXCEPT ![p] = "unlock"]
                           /\ UNCHANGED b
                      ELSE /\ cache' = cacheAfterReadError(cache, sourceURL, r.err)
                           /\ ret' = [ret EXCEPT ![p] = [smap |-> Nil, err |-> r.err, via |-> "ioerr"]]
                           /\ outcomes' = [outcomes EXCEPT ![sourceURL] = @ \cup {"ioerr"}]
                           /\ pc' = [pc EXCEPT ![p] = "unlock"]
                           /\ UNCHANGED b
                 ELSE /\ b' = [b EXCEPT ![p] = r.b]
                      /\ pc' = [pc EXCEPT ![p] = "parse"]
                      /\ UNCHANGED <<cache, ret, outcomes>>
        /\ UNCHANGED <<StaticRoutes, mu, frame, loc, parses, resolved,
                       prev, cacheAtLock, readsAtLock,
                   parsesAtLock, calls>>

\* Faulty variants: a parsed map that is not stored, and a parse error
\* remembered as a nil entry.
cacheAfterParseNever(c, sourceURL, parsed, pluginID) == c

cacheAfterParseNegative(c, sourceURL, parsed, pluginID) ==
    IF parsed.err # NoErr THEN [c EXCEPT ![sourceURL] = Nil]
    ELSE [c EXCEPT ![sourceURL] = SMap(parsed.consumer, pluginID)]

\* Faulty variant: the parsed map is stored under every URL with the path
\* of sourceURL.
cacheAfterParseByPath(c, sourceURL, parsed, pluginID) ==
    IF parsed.err # NoErr THEN c
    ELSE [v \in URLs |->
             IF v = sourceURL \/ (~urlParseFails(v) /\ urlPath(v) = urlPath(sourceURL))
             THEN SMap(parsed.consumer, pluginID) ELSE c[v]]

\* The cache after the parser ran: a parsed map is stored under sourceURL,
\* a parse error leaves the cache alone.
cacheAfterParse(c, sourceURL, parsed, pluginID) ==
    IF parsed.err # NoErr THEN c
    ELSE [c EXCEPT ![sourceURL] = SMap(parsed.consumer, pluginID)]

\* sourcemap.Parse(sourceURL + ".map", b) and the positive cache entry.
Parse(p) ==
    LET sourceURL == frame[p].Filename
        parsed    == sourcemapParse(b[p])
        smap      == SMap(parsed.consumer, loc[p].pluginID)
    IN  /\ pc[p] = "parse"
        /\ parses' = [parses EXCEPT ![sourceURL] = Append(@, parsed.err)]
        /\ cache' = cacheAfterParse(cache, sourceURL, parsed, loc[p].pluginID)
        /\ IF parsed.err # NoErr
           THEN /\ ret' = [ret EXCEPT ![p] = [smap |-> Nil, err |-> parsed.err, via |-> "parseerr"]]
                /\ outcomes' = [outcomes EXCEPT ![sourceURL] = @ \cup {"parseerr"}]
           ELSE /\ ret' = [ret EXCEPT ![p] = [smap |-> smap, err |-> NoErr, via |-> "loaded"]]
                /\ outcomes' = [outcomes EXCEPT ![sourceURL] = @ \cup {"loaded"}]
        /\ pc' = [pc EXCEPT ![p] = "unlock"]
        /\ UNCHANGED <<StaticRoutes, mu, frame, loc, b, reads, resolved,
                       prev, cacheAtLock, readsAtLock,
                   parsesAtLock, calls>>

\* Faulty variant: an empty function name is passed on as it is.
functionNameKept(function) == function

\* The function name of the resolved frame: "?" stands for an empty one.
functionName(function) == IF function = "" THEN "?" ELSE function

\* The module of the resolved frame: the plugin of the map, else "core".
moduleOf(smap) == IF Len(smap.pluginID) > 0 THEN smap.pluginID ELSE <<"core">>

\* Faulty variants: line and column of the original position exchanged,
\* and an error of getSourceMap swallowed.
resolveFrameSwapped(smap, err, f) ==
    IF err # NoErr THEN Failed(err)
    ELSE IF smap = Nil THEN NoneResult
    ELSE LET src == consumerSource(smap.consumer, f.Lineno, f.Colno)
         IN  IF ~src.ok THEN NoneResult
             ELSE Resolved([Filename |-> src.file,
                            Lineno   |-> src.col,
                            Colno    |-> src.line,
                            Function |-> functionName(src.function),
                            Module   |-> moduleOf(smap)])

resolveFrameSwallowed(smap, err, f) ==
    IF err # NoErr \/ smap = Nil THEN NoneResult
    ELSE LET src == consumerSource(smap.consumer, f.Lineno, f.Colno)
         IN  IF ~src.ok THEN NoneResult
             ELSE Resolved([Filename |-> src.file,
                            Lineno   |-> src.line,
                            Colno    |-> src.col,
                            Function |-> functionName(src.function),
                            Module   |-> moduleOf(smap)])

\* resolveSourceLocation after getSourceMap has returned (smap, err).
resolveFrame(smap, err, f) ==
    IF err # NoErr THEN Failed(err)
    ELSE IF smap = Nil THEN NoneResult
    ELSE LET src == consumerSource(smap.consumer, f.Lineno, f.Colno)
         IN  IF ~src.ok THEN NoneResult
             ELSE Resolved([Filename |-> src.file,
                            Lineno   |-> src.line,
                            Colno    |-> src.col,
                            Function |-> functionName(src.function),
                            Module   |-> moduleOf(smap)])

\* What resolveSourceLocation is about to return to caller p, once
\* getSourceMap has its return value.
Out(p) == resolveFrame(ret[p].smap, ret[p].err, frame[p])

\* Faulty variant: the mutex is released on the successful paths only, as
\* with an Unlock at the end of the function instead of a deferred one.
ReturnKeepLock(p) ==
    /\ pc[p] = "unlock"
    /\ mu' = IF ret[p].err # NoErr THEN mu ELSE NoProc
    /\ cacheAtLock' = cache
    /\ readsAtLock' = reads
    /\ parsesAtLock' = parses
    /\ resolved' = [resolved EXCEPT ![frame[p]] = Out(p)]
    /\ frame' = [frame EXCEPT ![p] = NoFrame]
    /\ loc' = [loc EXCEPT ![p] = NoLocation]
    /\ b' = [b EXCEPT ![p] = ""]
    /\ ret' = [ret EXCEPT ![p] = NoRet]
    /\ prev' = [prev EXCEPT ![p] = NotYet]
    /\ pc' = [pc EXCEPT ![p] = "idle"]
    /\ UNCHANGED <<StaticRoutes, cache, reads, parses, outcomes, calls>>

\* getSourceMap returns: the deferred store.Unlock() runs,
\* resolveSourceLocation finishes with what it got and the call's locals die.
Return(p) ==
    /\ pc[p] = "unlock"
    /\ mu' = NoProc
    /\ cacheAtLock' = cache
    /\ readsAtLock' = reads
    /\ parsesAtLock' = parses
    /\ resolved' = [resolved EXCEPT ![frame[p]] = Out(p)]
    /\ frame' = [frame EXCEPT ![p] = NoFrame]
    /\ loc' = [loc EXCEPT ![p] = NoLocation]
    /\ b' = [b EXCEPT ![p] = ""]
    /\ ret' = [ret EXCEPT ![p] = NoRet]
    /\ prev' = [prev EXCEPT ![p] = NotYet]
    /\ pc' = [pc EXCEPT ![p] = "idle"]
    /\ UNCHANGED <<StaticRoutes, cache, reads, parses, outcomes, calls>>

\* The plugin manager replaces the contents of plugins.StaticRoutes.
SetRoutes(r) ==
    /\ r # StaticRoutes
    /\ StaticRoutes' = r
    /\ UNCHANGED <<cache, mu, pc, frame, loc, b, ret, reads, parses, outcomes,
                   resolved, prev, cacheAtLock, readsAtLock,
                   parsesAtLock, calls>>

Next ==
    \/ \E p \in Procs : \E f \in Frames : Call(p, f)
    \/ \E p \in Procs : Lock(p)
    \/ \E p \in Procs : Lookup(p)
    \/ \E p \in Procs : Read(p)
    \/ \E p \in Procs : Parse(p)
    \/ \E p \in Procs : Return(p)
    \/ \E r \in Registries : SetRoutes(r)

Spec == Init /\ [][Next]_vars

\* The scheduler runs every goroutine that can take a step, the reader and
\* the parser return, and sync.Mutex hands the lock to a caller that keeps
\* waiting (starvation mode), so that a waiter is not overtaken forever.
\* Lookup(p) as seen on pc: the caller leaves position "lookup".  A step of
\* Next does so exactly when it is a step of Lookup(p), and Lookup(p) is
\* enabled exactly when the caller is at that position, so weak fairness of
\* the one is weak fairness of the other.
LeavesLookup(p) ==
    /\ pc[p] = "lookup"
    /\ \E to \in {"read", "unlock"} : pc' = [pc EXCEPT ![p] = to]

Fairness ==
    \A p \in Procs :
        /\ SF_vars(Lock(p))
        /\ WF_pc(LeavesLookup(p))
        /\ WF_vars(Read(p))
        /\ WF_vars(Parse(p))
        /\ WF_vars(Return(p))

\* The frames of the fair runs: one URL for every way getSourceMap can end.
LiveFrames == {Frame(CoreURL, 1, 5), Frame(PluginURL, 1, 5),
               Frame(OtherURL, 1, 5), Frame(BadURL, 1, 5)}

LiveNext ==
    \/ \E p \in Procs : \E f \in LiveFrames : Call(p, f)
    \/ \E p \in Procs : Lock(p)
    \/ \E p \in Procs : Lookup(p)
    \/ \E p \in Procs : Read(p)
    \/ \E p \in Procs : Parse(p)
    \/ \E p \in Procs : Return(p)
    \/ \E r \in Registries : SetRoutes(r)

FairSpec == Init /\ [][LiveNext]_vars /\ Fairness

\* ================================================================== claims
URLOf(p) == frame[p].Filename

Last(s) == s[Len(s)]

\* Caller p holds the mutex and is past the cache test.
Past(p) == pc[p] \in {"read", "parse", "unlock"}

\* Caller p is about to return from getSourceMap with the mutex still held.
Returning(p) == pc[p] = "unlock"

\* The call of p has invoked the reader / run the parser for its URL.
InvokedReader(p) == reads[URLOf(p)] # readsAtLock[URLOf(p)]
RanParser(p)     == parses[URLOf(p)] # parsesAtLock[URLOf(p)]

\* ------------------------------------------------------------------- C1
\* C1: a caller that acquires the mutex when its URL already has a cache
\* entry (positive or negative) returns exactly that entry, without error,
\* without reaching the reader or the parser and without touching the
\* cache, whatever the route registry holds by then.
C1_CachedEntryServed ==
    \A p \in Procs :
        (Past(p) /\ cacheAtLock[URLOf(p)] # Absent) =>
            /\ Returning(p)
            /\ ret[p] = [smap |-> cacheAtLock[URLOf(p)], err |-> NoErr, via |-> "hit"]
            /\ reads = readsAtLock
            /\ parses = parsesAtLock
            /\ cache = cacheAtLock

\* A plugin map served from the cache although the registry no longer has
\* a route for its URL.
C1_Witness ==
    \E p \in Procs :
        /\ Returning(p)
        /\ ret[p].via = "hit"
        /\ ret[p].smap.state = "map"
        /\ guessSourceMapLocation(URLOf(p), StaticRoutes).kind = "nil"

\* ------------------------------------------------------------------- C2
\* C2 as stated: for every URL the reader is invoked at most once and the
\* parser is run at most once, whatever their outcomes.
C2_AtMostOnce ==
    \A u \in URLs : Len(reads[u]) <= 1 /\ Len(parses[u]) <= 1

ReadsWithBytes(u) == Cardinality({i \in 1..Len(reads[u]) : reads[u][i].err = NoErr})

\* C2 amended: for every URL at most one reader invocation ends in an
\* outcome that is cached (file not found, or bytes that parse), and it is
\* the last invocation for that URL; only invocations that end in another
\* read error or in a parse error are followed by further ones.
C2_AtMostOnceCached ==
    \A u \in URLs :
        /\ \A i \in 1..Len(reads[u]) :
              reads[u][i].err = NotExist => i = Len(reads[u])
        /\ \A j \in 1..Len(parses[u]) :
              parses[u][j] = NoErr =>
                  /\ j = Len(parses[u])
                  /\ Last(reads[u]).err = NoErr
                  /\ Len(parses[u]) = ReadsWithBytes(u)

\* A second caller served from the cache after a single read and parse.
C2_Witness ==
    \E p \in Procs :
        /\ Returning(p)
        /\ ret[p].via = "hit"
        /\ cache[URLOf(p)].state = "map"
        /\ Len(reads[URLOf(p)]) = 1
        /\ parses[URLOf(p)] = <<NoErr>>

\* ------------------------------------------------------------------- C3
\* C3: a reader invocation that reports "file not found" is the last reader
\* invocation for its URL and leaves a negative entry; when it is the
\* reader's first answer for the URL the reader is invoked exactly once in
\* total, and every caller of that URL that gets past the cache test
\* afterwards returns none without error.
C3_NotFoundOnce ==
    \A u \in URLs :
        /\ \A i \in 1..Len(reads[u]) :
              reads[u][i].err = NotExist => (i = Len(reads[u]) /\ cache[u] = Nil)
        /\ (reads[u] # <<>> /\ reads[u][1].err = NotExist) =>
              (Len(reads[u]) = 1 /\ parses[u] = <<>>)
        /\ \A p \in Procs :
              (/\ URLOf(p) = u
               /\ Past(p)
               /\ \E i \in 1..Len(reads[u]) : reads[u][i].err = NotExist) =>
                  /\ Returning(p)
                  /\ ret[p].smap = Nil
                  /\ ret[p].err = NoErr
                  /\ Out(p) = NoneResult

\* A later caller of a URL whose file was not found, served the negative
\* entry after the one read.
C3_Witness ==
    \E p \in Procs :
        /\ Returning(p)
        /\ ret[p].via = "hit"
        /\ Len(reads[URLOf(p)]) = 1
        /\ reads[URLOf(p)][1].err = NotExist

\* ------------------------------------------------------------------- C4
\* The URL parses and its path starts with neither known prefix.
NeitherPrefix(u) ==
    /\ ~urlParseFails(u)
    /\ ~HasPrefix(urlPath(u), BuildPrefix)
    /\ ~HasPrefix(urlPath(u), PluginsPrefix)

\* C4: for a URL under neither prefix the reader and the parser are never
\* invoked, its cache entry is never positive, and every getSourceMap call
\* for it returns none without error with the negative entry in place.
C4_UnknownPrefix ==
    \A u \in URLs :
        NeitherPrefix(u) =>
            /\ reads[u] = <<>>
            /\ parses[u] = <<>>
            /\ cache[u] \in {Absent, Nil}
            /\ \A p \in Procs :
                  URLOf(p) = u =>
                      /\ pc[p] \notin {"read", "parse"}
                      /\ Returning(p) =>
                            /\ ret[p].smap = Nil
                            /\ ret[p].err = NoErr
                            /\ ret[p].via \in {"unknown", "hit"}
                            /\ cache[u] = Nil
                            /\ Out(p) = NoneResult

\* A repeated call for a URL under neither prefix.
C4_Witness ==
    \E p \in Procs :
        /\ Returning(p)
        /\ NeitherPrefix(URLOf(p))
        /\ ret[p].via = "hit"

C7_MalformedURL ==
    \A u \in URLs :
        urlParseFails(u) =>
            /\ cache[u] = Absent
            /\ reads[u] = <<>>
            /\ parses[u] = <<>>
            /\ \A p \in Procs :
                  URLOf(p) = u =>
                      /\ pc[p] \notin {"read", "parse"}
                      /\ Returning(p) =>
                            /\ ret[p].smap = Nil
                            /\ ret[p].err = UrlErr
                            /\ Out(p) = Failed(UrlErr)
                            /\ cache = cacheAtLock
                            /\ reads = readsAtLock

\* A call for a malformed URL returning while other URLs are cached.
C7_Witness ==
    \E p \in Procs :
        /\ Returning(p)
        /\ urlParseFails(URLOf(p))
        /\ \E v \in URLs : cache[v] # Absent

\* ------------------------------------------------------------------- C8
\* C8: no step changes or removes the cache entry of a URL that has one.
C8_WriteOnce ==
    [][\A u \in URLs : cache[u] # Absent => cache'[u] = cache[u]]_vars

\* A cache holding a parsed map and a negative entry while a further call
\* is served from it.
C8_Witness ==
    /\ \E u \in URLs : cache[u].state = "map"
    /\ \E v \in URLs : cache[v] = Nil

LeadingDotDot(path) == Split(path)[1] = <<"..">>

\* C10 as stated: no path handed to the reader starts with a ".." element.
C10_NoTraversal ==
    /\ \A u \in URLs : \A i \in 1..Len(reads[u]) : ~LeadingDotDot(reads[u][i].path)
    /\ \A p \in Procs : pc[p] = "read" => ~LeadingDotDot(normalizePath(loc[p].path))

\* ------------------------------------------------------------------ C11
\* The path lies under /public/plugins/<pluginID>/ : the identifier is a
\* whole path segment.
UnderPlugin(path, pluginID) == HasPrefix(path, PluginsPrefix \o pluginID \o <<SL>>)

\* C11 as stated: a location or a cached map carries a plugin identifier
\* only if the URL path begins with /public/plugins/<pluginID>/.
C11_WholeSegment ==
    /\ \A p \in Procs :
          (Past(p) /\ loc[p].kind = "loc" /\ loc[p].pluginID # <<>>) =>
              UnderPlugin(urlPath(URLOf(p)), loc[p].pluginID)
    /\ \A u \in URLs :
          (cache[u].state = "map" /\ cache[u].pluginID # <<>>) =>
              UnderPlugin(urlPath(u), cache[u].pluginID)

\* ------------------------------------------------------------------ C12
\* C12 as stated: a resolved frame has module "core" when its URL is under
\* /public/build/, and when its URL is under /public/plugins/ its module is
\* the plugin identifier of the cached map and the URL lies under
\* /public/plugins/<module>/.
C12_ModuleOwner ==
    \A p \in Procs :
        (Returning(p) /\ Out(p).state = "frame") =>
            LET path   == urlPath(URLOf(p))
                module == Out(p).frame.Module
            IN  /\ HasPrefix(path, BuildPrefix) => module = <<"core">>
                /\ HasPrefix(path, PluginsPrefix) =>
                      /\ module = ret[p].smap.pluginID
                      /\ UnderPlugin(path, module)


\* ------------------------------------------------------------------ C13
\* The mappings of map m that sit exactly at generated position (line, col).
MappingsAt(m, line, col) ==
    {i \in 1..Len(m) : m[i].genLine = line /\ m[i].genColumn = col}

\* Caller p got a map that asserts a mapping exactly at its frame's position.
ExactHit(p) ==
    /\ Returning(p)
    /\ ret[p].err = NoErr
    /\ ret[p].smap.state = "map"
    /\ MappingsAt(ret[p].smap.consumer, frame[p].Lineno, frame[p].Colno) # {}

\* C13 as stated: when the map asserts (L, C) -> (F, L', C', Fn), resolving
\* a frame at (L, C) yields exactly (F, L', C', Fn, module).
C13_RoundTrip ==
    \A p \in Procs :
        ExactHit(p) =>
            \A i \in MappingsAt(ret[p].smap.consumer, frame[p].Lineno, frame[p].Colno) :
                LET m == ret[p].smap.consumer[i]
                IN  Out(p) = Resolved([Filename |-> m.source,
                                       Lineno   |-> m.sourceLine,
                                       Colno    |-> m.sourceColumn,
                                       Function |-> m.name,
                                       Module   |-> moduleOf(ret[p].smap)])

\* C13, amended: the round trip yields (F, L', C', Fn, module) when the map
\* names a function at the position, and (F, L', C', "?", module) when the
\* mapping carries no function name.
C13_RoundTripNamed ==
    \A p \in Procs :
        ExactHit(p) =>
            \A i \in MappingsAt(ret[p].smap.consumer, frame[p].Lineno, frame[p].Colno) :
                LET m == ret[p].smap.consumer[i]
                IN  Out(p) = Resolved([Filename |-> m.source,
                                       Lineno   |-> m.sourceLine,
                                       Colno    |-> m.sourceColumn,
                                       Function |-> IF m.name = "" THEN "?" ELSE m.name,
                                       Module   |-> IF HasPrefix(urlPath(URLOf(p)), BuildPrefix)
                                                    THEN <<"core">>
                                                    ELSE ret[p].smap.pluginID])

\* A frame at a position for which the freshly loaded map names a function.
C13_Witness ==
    \E p \in Procs :
        /\ ExactHit(p)
        /\ ret[p].via = "loaded"
        /\ Out(p).state = "frame"
        /\ Out(p).frame.Function = "fc"
        /\ Out(p).frame.Module = <<"core">>


\* ------------------------------------------------------------------ C14
\* The map of caller p has no mapping for the position of its frame.
NoMappingAt(p) ==
    ~consumerSource(ret[p].smap.consumer, frame[p].Lineno, frame[p].Colno).ok

NameInMap(p) ==
    consumerSource(ret[p].smap.consumer, frame[p].Lineno, frame[p].Colno).function

\* C15: a frame returned by resolveSourceLocation has a non-empty function
\* name: "?" when the map gives an empty name, the name of the map otherwise.
C15_FunctionName ==
    \A p \in Procs :
        (Returning(p) /\ Out(p).state = "frame") =>
            /\ Out(p).frame.Function # ""
            /\ NameInMap(p) = "" => Out(p).frame.Function = "?"
            /\ NameInMap(p) # "" => Out(p).frame.Function = NameInMap(p)

\* A frame resolved through a mapping without a function name.
C15_Witness ==
    \E p \in Procs :
        /\ Returning(p)
        /\ Out(p).state = "frame"
        /\ NameInMap(p) = ""
        /\ Out(p).frame.Function = "?"


\* ------------------------------------------------------------------ C16
\* The routes of the registry whose prefix /public/plugins/<id> the path has.
MatchingRoutes(path) ==
    {i \in 1..Len(StaticRoutes) :
        HasPrefix(path, Join(PluginsPrefix, StaticRoutes[i].PluginId))}

\* Caller p resolves the location of a URL under /public/plugins/ in this step.
ResolvesPluginURL(p) ==
    /\ pc[p] = "lookup"
    /\ pc'[p] # "lookup"
    /\ cache[URLOf(p)] = Absent
    /\ ~urlParseFails(URLOf(p))
    /\ HasPrefix(urlPath(URLOf(p)), PluginsPrefix)

\* C16: for a URL under /public/plugins/ the location is that of the first
\* route, in registry order, whose prefix matches: its directory, the
\* remainder of the path after the prefix with ".map" appended, its plugin
\* identifier; when no route matches the URL is unknown: none is returned,
\* a nil entry is cached and the reader is not invoked.
C16_FirstRouteWins ==
    [][\A p \in Procs :
          ResolvesPluginURL(p) =>
              LET path == urlPath(URLOf(p))
              IN  IF MatchingRoutes(path) = {}
                  THEN /\ pc'[p] = "unlock"
                       /\ ret'[p].smap = Nil /\ ret'[p].err = NoErr
                       /\ cache'[URLOf(p)] = Nil
                       /\ reads' = reads
                  ELSE LET i == CHOOSE k \in MatchingRoutes(path) :
                                    \A j \in MatchingRoutes(path) : k <= j
                           route  == StaticRoutes[i]
                           prefix == Join(PluginsPrefix, route.PluginId)
                       IN  /\ pc'[p] = "read"
                           /\ loc'[p].dir = route.Directory
                           /\ loc'[p].path = SliceFrom(path, Len(prefix)) \o MapSuffix
                           /\ loc'[p].pluginID = route.PluginId
                           /\ cache' = cache]_vars

\* Two routes match the URL and the location is that of the one registered
\* first.
C16_Witness ==
    \E p \in Procs :
        /\ pc[p] = "read"
        /\ URLOf(p) = PluginBarURL
        /\ StaticRoutes = <<RouteFooBar, RouteFoo>>
        /\ loc[p].pluginID = RouteFooBar.PluginId
        /\ loc[p].dir = RouteFooBar.Directory


\* ------------------------------------------------------------------ C17
\* Two different URL strings resolve to the same directory and map file.
SameMapFile(u, v) ==
    /\ u # v
    /\ guessSourceMapLocation(u, StaticRoutes).kind = "loc"
    /\ guessSourceMapLocation(v, StaticRoutes).kind = "loc"
    /\ guessSourceMapLocation(u, StaticRoutes).dir = guessSourceMapLocation(v, StaticRoutes).dir
    /\ normalizePath(guessSourceMapLocation(u, StaticRoutes).path)
           = normalizePath(guessSourceMapLocation(v, StaticRoutes).path)

\* C17: the cache is keyed by the exact URL string: a call for a URL without
\* an entry of its own is not served from the cache, whatever entries other
\* URLs of the same map file have; when its location resolves it invokes the
\* reader itself, and it runs the parser itself when the reader delivers; a
\* positive entry of a URL comes from a read and a parse of that very URL.
C17_ExactKey ==
    /\ \A p \in Procs :
          (Past(p) /\ cacheAtLock[URLOf(p)] = Absent) =>
              /\ ret[p].via # "hit"
              /\ loc[p].kind = "loc" =>
                    /\ pc[p] \in {"parse", "unlock"} => InvokedReader(p)
                    /\ (pc[p] = "unlock" /\ Last(reads[URLOf(p)]).err = NoErr) => RanParser(p)
    /\ \A u \in URLs :
          cache[u].state = "map" =>
              /\ \E i \in 1..Len(reads[u]) : reads[u][i].err = NoErr
              /\ \E i \in 1..Len(parses[u]) : parses[u][i] = NoErr

\* A URL with a query string loads its own map although the URL without the
\* query string, which names the same map file, already has its entry.
C17_Witness ==
    \E p \in Procs :
        /\ Returning(p)
        /\ URLOf(p) = CoreQueryURL
        /\ ret[p].via = "loaded"
        /\ cacheAtLock[CoreURL].state = "map"
        /\ SameMapFile(CoreURL, CoreQueryURL)
        /\ Last(reads[CoreQueryURL]).path = Last(reads[CoreURL]).path
        /\ Last(reads[CoreQueryURL]).dir = Last(reads[CoreURL]).dir
        /\ cache[CoreQueryURL].state = "map"


\* ------------------------------------------------------------------ C18
\* C18: under fair scheduling, with a reader and a parser that return, every
\* call that was started returns with the mutex released, whichever way
\* getSourceMap ends, and the mutex is held by a caller inside getSourceMap
\* and by nobody else, so that no caller waits forever.
C18_EveryCallReturns ==
    /\ \A p \in Procs : (pc[p] # "idle") ~> (pc[p] = "idle" /\ mu # p)
    /\ [](\A p \in Procs : mu = p <=> pc[p] \in {"lookup", "read", "parse", "unlock"})

\* A caller waits for the mutex while the holder is about to leave
\* getSourceMap with an error.
C18_Witness ==
    \E p, q \in Procs :
        /\ Returning(p)
        /\ mu = p
        /\ ret[p].err # NoErr
        /\ pc[q] = "lock"


\* ------------------------------------------------------------------ C19
\* C19: a step changes the cache entry of a URL only if it is a step of a
\* caller that holds the mutex for that very URL; a call for URL u leaves
\* the entry, or the absence of an entry, of every other URL as it found it.
C19_OtherEntriesKept ==
    [][/\ \A v \in URLs :
             cache'[v] # cache[v] => \E p \in Procs : mu = p /\ URLOf(p) = v
       /\ \A p \in Procs :
             (Past(p) /\ pc'[p] # "idle") =>
                 \A v \in URLs \ {URLOf(p)} : cache'[v] = cacheAtLock[v]]_vars

\* A call has changed the entry of its own URL while another URL has an
\* entry.
C19_Witness ==
    \E p \in Procs :
        /\ Returning(p)
        /\ cache[URLOf(p)] # cacheAtLock[URLOf(p)]
        /\ \E v \in URLs \ {URLOf(p)} : cache[v] # Absent /\ cache[v] = cacheAtLock[v]


\* ------------------------------------------------------------------ C20
\* C20: the cache is justified by the history of each URL: a positive entry
\* only after a reader call for the URL that delivered bytes whose parse
\* succeeded (the entry holds that parse); a negative entry only after a
\* lookup that found the location unknown or a reader call that reported
\* "file does not exist"; no entry while every lookup of the URL so far
\* ended in a malformed URL, another read error or a parse error.
C20_JustifiedByHistory ==
    \A u \in URLs :
        /\ cache[u].state = "map" =>
              /\ "loaded" \in outcomes[u]
              /\ \E i \in 1..Len(reads[u]) :
                    /\ reads[u][i].err = NoErr
                    /\ sourcemapParse(reads[u][i].b).err = NoErr
                    /\ cache[u].consumer = sourcemapParse(reads[u][i].b).consumer
              /\ \E i \in 1..Len(parses[u]) : parses[u][i] = NoErr
        /\ cache[u] = Nil =>
              \/ "unknown" \in outcomes[u]
              \/ /\ "notfound" \in outcomes[u]
                 /\ \E i \in 1..Len(reads[u]) : IsNotExist(reads[u][i].err)
        /\ outcomes[u] \subseteq {"urlerr", "ioerr", "parseerr"} => cache[u] = Absent

\* A URL whose lookups ended in a read error and in a parse error, and in
\* nothing else: it was read twice and has no entry.
C20_Witness ==
    \E u \in URLs :
        /\ outcomes[u] = {"ioerr", "parseerr"}
        /\ Len(reads[u]) = 2
        /\ cache[u] = Absent

====
